---- MODULE Spec2Model ----
(***************************************************************************)
(* Model of the two winappCli Rust samples:                                *)
(*   samples/rust-app/src/main.rs            (console program)             *)
(*   samples/tauri-app/src-tauri/src/lib.rs  (Tauri command handlers)      *)
(*                                                                         *)
(* Both build a toast notification from an OS template, bind text into its *)
(* text slots and hand it to the OS notifier, and both query the package   *)
(* identity of the process.  Every WinRT call returns a Result; each is    *)
(* modelled as a step whose outcome (success, or failure with an HRESULT)  *)
(* is chosen by the environment.                                           *)
(*                                                                         *)
(* Locals of show_notification are written as "options": <<>> is "not      *)
(* bound yet", <<v>> is "bound to v".  They are rebound afresh on every    *)
(* entry; after a return they keep the values the call ended with, which   *)
(* is what the properties about a finished call read.                      *)
(***************************************************************************)
EXTENDS Integers, Sequences, FiniteSets

\* Bound of the model: how many times show_notification is invoked in a run.
MaxCalls == 2

\* Strings a caller may pass as title / body.
Texts == {"Title", "Body"}

\* Failure codes an OS call may return.
HResults == {"E_FAIL", "E_ACCESSDENIED"}

\* Family names the OS may report for a packaged process.
FamilyNames == {"Contoso.App_8wekyb3d8bbwe"}

VARIABLES
    app,        \* which sample runs: "rust" or "tauri"
    windows,    \* cfg(target_os = "windows") of the build
    pc,         \* position of the program
    ip,         \* position inside show_notification (index into Body), 0 outside
    fields,     \* arguments of the current show_notification call, in order
    template,   \* ToastTemplateType passed to GetTemplateContent, "none" before
    toast_xml,  \* option: the XmlDocument, a function slot index -> text children
    text_nodes, \* option: length of the node list of <text> elements
    node,       \* option: the text node created last
    item,       \* option: the slot index of the node Item() returned last
    toast,      \* option: the ToastNotification (the document it was built from)
    notifier,   \* whether CreateToastNotifier returned a notifier
    center,     \* the OS notification center: documents shown, in order
    log,        \* OS calls of the current show_notification call, in order
    result,     \* option: what the current call returned
    prev,       \* option: result and final document of the call before this one
    ncalls,     \* number of show_notification calls entered
    nok,        \* number of show_notification calls that returned Ok
    idlog,      \* outcomes of the identity steps executed by the last query
    ret,        \* option: string returned by get_package_family_name
    stdout      \* lines printed by main

vars == <<app, windows, pc, ip, fields, template, toast_xml, text_nodes, node,
          item, toast, notifier, center, log, result, prev, ncalls, nok,
          idlog, ret, stdout>>

locals == <<template, toast_xml, text_nodes, node, item, toast, notifier>>
identity == <<idlog, ret>>

----------------------------------------------------------------------------
(* Values *)

Success == [ok |-> TRUE, err |-> ""]
Failure(e) == [ok |-> FALSE, err |-> e]

\* What an OS call may answer.
Outcomes == {Success} \cup {Failure(e) : e \in HResults}

\* windows::core::Error::to_string(): the message of the HRESULT.
to_string(e) ==
    CASE e = "E_FAIL" -> "Unspecified error"
      [] e = "E_ACCESSDENIED" -> "Access is denied."
      [] e = "E_BOUNDS" -> "The operation attempted to access data outside the valid range"
      [] OTHER -> e

\* Variant: the step's error is replaced by one generic message.
SurfaceGeneric(a, e) == "Failed to show notification"

\* The error a failing step hands to the caller of show_notification:
\* rust-app uses `?` (the windows::core::Error itself), tauri-app
\* .map_err(|e| e.to_string())?.
Surface(a, e) == IF a = "rust" THEN e ELSE to_string(e)

\* Variant: the Result is dropped (`let _ = ...`), the function goes on.
PropagatesNever(o) == FALSE

\* The `?` after a call: an Err returns from the function at once.
Propagates(o) == ~o.ok

\* Variant: both samples ask for the one-line template.
TemplateOfText01(a) == "ToastText01"

\* The template each show_notification asks the OS for.
TemplateOf(a) == IF a = "rust" THEN "ToastText01" ELSE "ToastText02"

\* Number of <text> elements of the OS template.
SlotCount(t) ==
    CASE t = "ToastText01" -> 1
      [] t = "ToastText02" -> 2
      [] OTHER -> 0

\* Variant: the document of the previous call is kept and handed out again.
TemplateContentCached(t) ==
    IF prev # <<>> /\ prev[1].doc # <<>> THEN prev[1].doc[1]
    ELSE [i \in 0 .. SlotCount(t) - 1 |-> <<>>]

\* The document GetTemplateContent returns: every text slot empty.
TemplateContent(t) == [i \in 0 .. SlotCount(t) - 1 |-> <<>>]

\* AppendChild: the text becomes the last child of the slot's element.
AppendText(doc, slot, text) ==
    IF slot \in DOMAIN doc
    THEN [doc EXCEPT ![slot] = Append(@, text)]
    ELSE doc

\* Variant: a document equal to one already shown is not shown again.
SubmitDeduplicated(c, doc) ==
    IF \E k \in 1 .. Len(c) : c[k] = doc THEN c ELSE Append(c, doc)

\* Show: the notification is enqueued in the notification center.
Submit(c, doc) == Append(c, doc)

Step(o, i) == [op |-> o, idx |-> i]

\* Variant: tauri-app binds the title to Item(1) and the body to Item(0).
BodySwapped(a) ==
    IF a = "rust"
    THEN << Step("GetTemplateContent", 0), Step("GetElementsByTagName", 0),
            Step("Item", 0), Step("CreateTextNode", 0), Step("AppendChild", 0),
            Step("CreateToastNotification", 0), Step("CreateToastNotifier", 0),
            Step("Show", 0) >>
    ELSE << Step("GetTemplateContent", 0), Step("GetElementsByTagName", 0),
            Step("CreateTextNode", 0), Step("Item", 1), Step("AppendChild", 0),
            Step("CreateTextNode", 1), Step("Item", 0), Step("AppendChild", 1),
            Step("CreateToastNotification", 0), Step("CreateToastNotifier", 0),
            Step("Show", 0) >>

\* Variant: tauri-app constructs the notification before it binds the body.
BodyConstructEarly(a) ==
    IF a = "rust"
    THEN << Step("GetTemplateContent", 0), Step("GetElementsByTagName", 0),
            Step("Item", 0), Step("CreateTextNode", 0), Step("AppendChild", 0),
            Step("CreateToastNotification", 0), Step("CreateToastNotifier", 0),
            Step("Show", 0) >>
    ELSE << Step("GetTemplateContent", 0), Step("GetElementsByTagName", 0),
            Step("CreateTextNode", 0), Step("Item", 0), Step("AppendChild", 0),
            Step("CreateToastNotification", 0),
            Step("CreateTextNode", 1), Step("Item", 1), Step("AppendChild", 1),
            Step("CreateToastNotifier", 0), Step("Show", 0) >>

\* Variant: the slot indices are one too high (Item(1), Item(2)).
BodyOffByOne(a) ==
    IF a = "rust"
    THEN << Step("GetTemplateContent", 0), Step("GetElementsByTagName", 0),
            Step("Item", 1), Step("CreateTextNode", 0), Step("AppendChild", 0),
            Step("CreateToastNotification", 0), Step("CreateToastNotifier", 0),
            Step("Show", 0) >>
    ELSE << Step("GetTemplateContent", 0), Step("GetElementsByTagName", 0),
            Step("CreateTextNode", 0), Step("Item", 1), Step("AppendChild", 0),
            Step("CreateTextNode", 1), Step("Item", 2), Step("AppendChild", 1),
            Step("CreateToastNotification", 0), Step("CreateToastNotifier", 0),
            Step("Show", 0) >>

\* The OS calls of show_notification, in evaluation order.  idx is the
\* parameter index for CreateTextNode and the literal index for Item.
Body(a) ==
    IF a = "rust"
    THEN << Step("GetTemplateContent", 0),
            Step("GetElementsByTagName", 0),
            Step("Item", 0),
            Step("CreateTextNode", 0),
            Step("AppendChild", 0),
            Step("CreateToastNotification", 0),
            Step("CreateToastNotifier", 0),
            Step("Show", 0) >>
    ELSE << Step("GetTemplateContent", 0),
            Step("GetElementsByTagName", 0),
            Step("CreateTextNode", 0),
            Step("Item", 0),
            Step("AppendChild", 0),
            Step("CreateTextNode", 1),
            Step("Item", 1),
            Step("AppendChild", 1),
            Step("CreateToastNotification", 0),
            Step("CreateToastNotifier", 0),
            Step("Show", 0) >>

\* Variant: every failure is answered like a missing identity.
GetPackageFamilyNameFolded(win, cur, id, fam, name) ==
    IF ~win THEN "Not running on Windows"
    ELSE IF ~cur.ok \/ ~id.ok \/ ~fam.ok THEN "No package identity"
    ELSE name

\* get_package_family_name of tauri-app, from the outcomes of the three
\* identity calls.
GetPackageFamilyName(win, cur, id, fam, name) ==
    IF ~win THEN "Not running on Windows"
    ELSE IF ~cur.ok THEN "No package identity"
    ELSE IF ~id.ok THEN "Error retrieving Package ID"
    ELSE IF ~fam.ok THEN "Error retrieving Family Name"
    ELSE name

\* The identity calls get_package_family_name executes, with their outcomes.
IdentitySteps(win, cur, id, fam) ==
    IF ~win THEN <<>>
    ELSE IF ~cur.ok THEN <<FALSE>>
    ELSE IF ~id.ok THEN <<TRUE, FALSE>>
    ELSE <<TRUE, TRUE, fam.ok>>

\* Variant: a failed FamilyName() falls through to the notification.
MainAfterFallThrough(at, ok) ==
    CASE at = "main_Current" -> IF ok THEN "main_Id" ELSE "main_done"
      [] at = "main_Id" -> IF ok THEN "main_FamilyName" ELSE "main_done"
      [] OTHER -> "main_notify"

\* Where main goes after an identity call.
MainAfter(at, ok) ==
    IF ~ok THEN "main_done"
    ELSE CASE at = "main_Current" -> "main_Id"
           [] at = "main_Id" -> "main_FamilyName"
           [] OTHER -> "main_notify"

\* What main prints after an identity call.
MainPrints(at, o, name) ==
    CASE at = "main_Current" /\ ~o.ok -> << <<"Not packaged", "">> >>
      [] at = "main_Id" /\ ~o.ok -> << <<"Error getting package ID", o.err>> >>
      [] at = "main_FamilyName" /\ ~o.ok -> << <<"Error getting family name", o.err>> >>
      [] at = "main_FamilyName" /\ o.ok -> << <<"Package Family Name", name>> >>
      [] OTHER -> <<>>

----------------------------------------------------------------------------
(* State *)

Init ==
    /\ app \in {"rust", "tauri"}
    /\ windows \in BOOLEAN
    /\ app = "rust" => windows
    /\ pc = IF app = "rust" THEN "main_Current" ELSE "idle"
    /\ ip = 0
    /\ fields = <<>>
    /\ template = "none"
    /\ toast_xml = <<>>
    /\ text_nodes = <<>>
    /\ node = <<>>
    /\ item = <<>>
    /\ toast = <<>>
    /\ notifier = FALSE
    /\ center = <<>>
    /\ log = <<>>
    /\ result = <<>>
    /\ prev = <<>>
    /\ ncalls = 0
    /\ nok = 0
    /\ idlog = <<>>
    /\ ret = <<>>
    /\ stdout = <<>>

----------------------------------------------------------------------------
(* Package identity *)

\* main: Package::Current(), package.Id(), id.FamilyName(), one call each.
MainIdentity(at) ==
    /\ app = "rust"
    /\ pc = at
    /\ \E o \in Outcomes, name \in FamilyNames :
         /\ idlog' = Append(idlog, o.ok)
         /\ stdout' = stdout \o MainPrints(at, o, name)
         /\ pc' = MainAfter(at, o.ok)
    /\ UNCHANGED <<app, windows, ip, fields, locals, center, log, result, prev,
                   ncalls, nok, ret>>

PackageCurrent == MainIdentity("main_Current")
PackageId == MainIdentity("main_Id")
PackageFamilyName == MainIdentity("main_FamilyName")

\* The Tauri command get_package_family_name.
InvokeGetPackageFamilyName ==
    /\ app = "tauri"
    /\ pc = "idle"
    /\ \E cur \in Outcomes, id \in Outcomes, fam \in Outcomes, name \in FamilyNames :
         /\ ret' = <<GetPackageFamilyName(windows, cur, id, fam, name)>>
         /\ idlog' = IdentitySteps(windows, cur, id, fam)
    /\ UNCHANGED <<app, windows, pc, ip, fields, locals, center, log, result,
                   prev, ncalls, nok, stdout>>

----------------------------------------------------------------------------
(* show_notification *)

\* Entry: the parameters are bound, every local is new.
Enter(f) ==
    /\ ncalls < MaxCalls
    /\ fields' = f
    /\ ncalls' = ncalls + 1
    /\ prev' = IF result = <<>> THEN prev
               ELSE << [res |-> result[1], doc |-> toast_xml] >>
    /\ pc' = "show"
    /\ ip' = 1
    /\ template' = "none"
    /\ toast_xml' = <<>>
    /\ text_nodes' = <<>>
    /\ node' = <<>>
    /\ item' = <<>>
    /\ toast' = <<>>
    /\ notifier' = FALSE
    /\ log' = <<>>
    /\ result' = <<>>
    /\ UNCHANGED <<app, windows, center, nok, identity, stdout>>

\* main: show_notification("hello from rust").
MainNotify ==
    /\ app = "rust"
    /\ pc = "main_notify"
    /\ Enter(<<"hello from rust">>)

\* The Tauri command show_notification(title, body).
InvokeShowNotification ==
    /\ app = "tauri"
    /\ pc = "idle"
    /\ \E title \in Texts, body \in Texts : Enter(<<title, body>>)

\* The function returns r to its caller; main prints an Err and goes on.
Return(r) ==
    /\ result' = <<r>>
    /\ nok' = IF r.ok THEN nok + 1 ELSE nok
    /\ ip' = 0
    /\ pc' = IF app = "rust" THEN "main_done" ELSE "idle"
    /\ stdout' = IF app = "rust" /\ ~r.ok
                 THEN Append(stdout, <<"Error showing notification", r.err>>)
                 ELSE stdout

\* An OS call answered o: it is logged, and `?` returns its error or goes on.
Try(o, entry) ==
    /\ log' = Append(log, entry)
    /\ IF Propagates(o)
       THEN Return(Failure(Surface(app, o.err)))
       ELSE /\ ip' = ip + 1
            /\ UNCHANGED <<pc, result, nok, stdout>>

AtStep(o) ==
    /\ pc = "show"
    /\ windows
    /\ ip \in 1 .. Len(Body(app))
    /\ Body(app)[ip].op = o

Entry(o, i, a, out) == [op |-> o, idx |-> i, arg |-> a, ok |-> out.ok, err |-> out.err]

frame == <<app, windows, fields, center, prev, ncalls, identity>>

\* ToastNotificationManager::GetTemplateContent(template)
GetTemplateContent ==
    /\ AtStep("GetTemplateContent")
    /\ \E o \in Outcomes :
         /\ template' = TemplateOf(app)
         /\ toast_xml' = IF o.ok THEN <<TemplateContent(TemplateOf(app))>> ELSE toast_xml
         /\ Try(o, Entry("GetTemplateContent", 0, TemplateOf(app), o))
    /\ UNCHANGED <<frame, text_nodes, node, item, toast, notifier>>

\* toast_xml.GetElementsByTagName("text")
GetElementsByTagName ==
    /\ AtStep("GetElementsByTagName")
    /\ \E o \in Outcomes :
         /\ text_nodes' = IF o.ok /\ toast_xml # <<>>
                          THEN <<Cardinality(DOMAIN toast_xml[1])>>
                          ELSE text_nodes
         /\ Try(o, Entry("GetElementsByTagName", 0, "text", o))
    /\ UNCHANGED <<frame, template, toast_xml, node, item, toast, notifier>>

\* toast_xml.CreateTextNode(field)
CreateTextNode ==
    /\ AtStep("CreateTextNode")
    /\ \E o \in Outcomes :
         LET i == Body(app)[ip].idx IN
         /\ node' = IF o.ok THEN <<fields[i + 1]>> ELSE node
         /\ Try(o, Entry("CreateTextNode", i, fields[i + 1], o))
    /\ UNCHANGED <<frame, template, toast_xml, text_nodes, item, toast, notifier>>

\* What Item(i) may answer on a list of n nodes: nothing lies at i >= n.
ItemOutcomes(n, i) == IF i < n THEN Outcomes ELSE {Failure("E_BOUNDS")}

\* text_nodes.Item(i)
Item ==
    /\ AtStep("Item")
    /\ LET i == Body(app)[ip].idx
           n == IF text_nodes = <<>> THEN 0 ELSE text_nodes[1] IN
       \E o \in ItemOutcomes(n, i) :
         /\ item' = IF o.ok THEN <<i>> ELSE item
         /\ Try(o, Entry("Item", i, "", o))
    /\ UNCHANGED <<frame, template, toast_xml, text_nodes, node, toast, notifier>>

\* <node of Item>.AppendChild(<text node>)
AppendChild ==
    /\ AtStep("AppendChild")
    /\ item # <<>> /\ node # <<>> /\ toast_xml # <<>>
    /\ \E o \in Outcomes :
         /\ toast_xml' = IF o.ok THEN <<AppendText(toast_xml[1], item[1], node[1])>>
                         ELSE toast_xml
         /\ Try(o, Entry("AppendChild", item[1], node[1], o))
    /\ UNCHANGED <<frame, template, text_nodes, node, item, toast, notifier>>

\* ToastNotification::CreateToastNotification(&toast_xml)
CreateToastNotification ==
    /\ AtStep("CreateToastNotification")
    /\ toast_xml # <<>>
    /\ \E o \in Outcomes :
         /\ toast' = IF o.ok THEN <<toast_xml[1]>> ELSE toast
         /\ Try(o, Entry("CreateToastNotification", 0, "", o))
    /\ UNCHANGED <<frame, template, toast_xml, text_nodes, node, item, notifier>>

\* ToastNotificationManager::CreateToastNotifier()
CreateToastNotifier ==
    /\ AtStep("CreateToastNotifier")
    /\ \E o \in Outcomes :
         /\ notifier' = o.ok
         /\ Try(o, Entry("CreateToastNotifier", 0, "", o))
    /\ UNCHANGED <<app, windows, fields, prev, ncalls, identity, center,
                   template, toast_xml, text_nodes, node, item, toast>>

\* <notifier>.Show(&toast): Ok means the OS accepted the notification and
\* enqueued it, Err that it did not.
Show ==
    /\ AtStep("Show")
    /\ toast # <<>>
    /\ \E o \in Outcomes :
         /\ center' = IF o.ok THEN Submit(center, toast[1]) ELSE center
         /\ Try(o, Entry("Show", 0, "", o))
    /\ UNCHANGED <<app, windows, fields, prev, ncalls, identity, locals>>

\* Ok(())
ReturnOk ==
    /\ pc = "show"
    /\ windows
    /\ ip = Len(Body(app)) + 1
    /\ Return(Success)
    /\ UNCHANGED <<frame, locals, log>>

\* cfg(not(target_os = "windows")): the whole body is the Err.
Unsupported ==
    /\ pc = "show"
    /\ ~windows
    /\ Return(Failure("This feature is only supported on Windows"))
    /\ UNCHANGED <<frame, locals, log>>

----------------------------------------------------------------------------

Next ==
    \/ PackageCurrent
    \/ PackageId
    \/ PackageFamilyName
    \/ MainNotify
    \/ InvokeGetPackageFamilyName
    \/ InvokeShowNotification
    \/ GetTemplateContent
    \/ GetElementsByTagName
    \/ CreateTextNode
    \/ Item
    \/ AppendChild
    \/ CreateToastNotification
    \/ CreateToastNotifier
    \/ Show
    \/ ReturnOk
    \/ Unsupported

Spec == Init /\ [][Next]_vars

----------------------------------------------------------------------------
(* Properties *)

Last(q) == q[Len(q)]

\* A show_notification call has returned (and no later call was entered).
Finished == result # <<>>

Failed == Finished /\ ~result[1].ok

\* The last OS call of the current call was a successful Show.
Shown == log # <<>> /\ Last(log).op = "Show" /\ Last(log).ok

\* The document that holds exactly field i in slot i.
DocumentOf(f) == [i \in 0 .. Len(f) - 1 |-> <<f[i + 1]>>]

\* The successful AppendChild calls of a log, in order.
IsBind(e) == e.op = "AppendChild" /\ e.ok
Binds(l) == SelectSeq(l, IsBind)

UnsupportedError == "This feature is only supported on Windows"

\* The first OS call has been made, or the call is over.
Selected == ncalls > 0 /\ (log # <<>> \/ Finished)

(* C1, as stated: the template is selected by the number of fields - one    *)
(* field selects the one-slot template, two fields select the two-slot     *)
(* template, any other number fails before any OS call.                    *)
C1_TemplateByFieldCount ==
    Selected =>
        /\ Len(fields) = 1 => template = "ToastText01"
        /\ Len(fields) = 2 => template = "ToastText02"
        /\ Len(fields) \notin {1, 2} => Failed /\ log = <<>>

(* C1, amended: on a Windows build one field selects the one-slot template *)
(* and two fields select the two-slot template; on a build for another OS  *)
(* the two-field call fails with the "only supported on Windows" error     *)
(* before any OS call and selects no template; a call never has a number   *)
(* of fields other than 1 or 2.                                            *)
C1_TemplateByFieldCountOnWindows ==
    /\ ncalls > 0 => Len(fields) \in {1, 2}
    /\ Selected /\ windows =>
        /\ Len(fields) = 1 => template = "ToastText01" /\ SlotCount(template) = 1
        /\ Len(fields) = 2 => template = "ToastText02" /\ SlotCount(template) = 2
        /\ log[1].op = "GetTemplateContent" /\ log[1].arg = template
    /\ Selected /\ ~windows =>
        /\ result = <<Failure(UnsupportedError)>>
        /\ log = <<>>
        /\ template = "none"

C1_Witness ==
    /\ app = "tauri" /\ windows
    /\ Len(fields) = 2
    /\ Shown
    /\ template = "ToastText02"

(* C2: field order is preserved - when a call reaches submission, the      *)
(* submitted document holds exactly fields[i] in slot i, every slot was    *)
(* bound exactly once, and slot 0 was bound before slot 1.                 *)
C2_FieldOrderPreserved ==
    Shown =>
        /\ Last(center) = DocumentOf(fields)
        /\ Len(Binds(log)) = Len(fields)
        /\ \A k \in 1 .. Len(Binds(log)) :
             /\ Binds(log)[k].idx = k - 1
             /\ Binds(log)[k].arg = fields[k]

C2_Witness ==
    /\ Shown
    /\ fields = <<"Title", "Body">>
    /\ Last(center)[0] = <<"Title">>
    /\ Last(center)[1] = <<"Body">>

(* C3: when the template service cannot supply the template, the call      *)
(* returns that failure and makes no submission attempt: no notifier is    *)
(* acquired, Show is not invoked, nothing is enqueued.                     *)
C3_TemplateUnavailable ==
    (log # <<>> /\ log[1].op = "GetTemplateContent" /\ ~log[1].ok) =>
        /\ Len(log) = 1
        /\ pc # "show"
        /\ result = <<Failure(Surface(app, log[1].err))>>
        /\ toast_xml = <<>> /\ toast = <<>> /\ ~notifier
        /\ Len(center) = nok

C3_Witness ==
    /\ log # <<>>
    /\ log[1].op = "GetTemplateContent"
    /\ ~log[1].ok
    /\ Failed

\* Some identity step of the last query failed.
IdentityFailed == \E i \in 1 .. Len(idlog) : ~idlog[i]

(* C4, as stated: whichever identity step fails, the outcome is the one    *)
(* "no identity" outcome of a host without package identity.               *)
C4_FailuresFolded ==
    (ret # <<>> /\ IdentityFailed) => ret[1] = "No package identity"

IsErrorLine(l, what) == l[1] = what /\ l[2] \in HResults

(* C4, amended: the identity query never propagates a failure, but each    *)
(* failing step has an outcome of its own - tauri-app returns "No package  *)
(* identity", "Error retrieving Package ID" or "Error retrieving Family    *)
(* Name", rust-app prints "Not packaged", "Error getting package ID: e" or *)
(* "Error getting family name: e" and ends normally; the family name is    *)
(* returned (printed) only when all three steps succeed.                   *)
C4_FailureOutcomePerStep ==
    /\ (app = "tauri" /\ ret # <<>> /\ windows) =>
        /\ idlog \in {<<FALSE>>, <<TRUE, FALSE>>, <<TRUE, TRUE, FALSE>>, <<TRUE, TRUE, TRUE>>}
        /\ idlog = <<FALSE>> => ret[1] = "No package identity"
        /\ idlog = <<TRUE, FALSE>> => ret[1] = "Error retrieving Package ID"
        /\ idlog = <<TRUE, TRUE, FALSE>> => ret[1] = "Error retrieving Family Name"
        /\ (ret[1] \in FamilyNames) <=> (idlog = <<TRUE, TRUE, TRUE>>)
    /\ (app = "rust" /\ IdentityFailed) =>
        /\ pc = "main_done"
        /\ Len(stdout) = 1
        /\ idlog = <<FALSE>> => stdout[1] = <<"Not packaged", "">>
        /\ idlog = <<TRUE, FALSE>> => IsErrorLine(stdout[1], "Error getting package ID")
        /\ idlog = <<TRUE, TRUE, FALSE>> => IsErrorLine(stdout[1], "Error getting family name")
    /\ (app = "rust" /\ stdout # <<>>) =>
        ((stdout[1][1] = "Package Family Name" /\ stdout[1][2] \in FamilyNames)
            <=> (idlog = <<TRUE, TRUE, TRUE>>))

C4_Witness ==
    /\ app = "tauri"
    /\ idlog = <<TRUE, FALSE>>
    /\ ret = <<"Error retrieving Package ID">>

(* C5: no deduplication, no caching - whenever no call is running, the     *)
(* number of notifications in the notification center equals the number of *)
(* calls that returned success, and each one was built from a document of  *)
(* its own (one text per slot).                                            *)
C5_OneSubmissionPerSuccess ==
    /\ pc # "show" => Len(center) = nok
    /\ \A k \in 1 .. Len(center) :
         \A i \in DOMAIN center[k] : Len(center[k][i]) = 1
    /\ (Finished /\ result[1].ok) => Last(center) = DocumentOf(fields)

C5_Witness ==
    /\ nok = 2
    /\ Len(center) = 2
    /\ center[1] = center[2]
    /\ Finished /\ result[1].ok

\* Every OS call of the body was made and succeeded.
AllStepsSucceeded ==
    /\ Len(log) = Len(Body(app))
    /\ \A k \in 1 .. Len(log) : log[k].ok

(* C6: calls are independent - after a failed call, a call whose OS steps  *)
(* all succeed returns success with the template of its field count, a     *)
(* document holding exactly its own fields, and one submission of it;      *)
(* nothing of the earlier call shows.                                      *)
C6_CallsIndependent ==
    (prev # <<>> /\ ~prev[1].res.ok /\ windows /\ Finished /\ AllStepsSucceeded) =>
        /\ result = <<Success>>
        /\ template = TemplateOf(app)
        /\ toast_xml = <<DocumentOf(fields)>>
        /\ toast = <<DocumentOf(fields)>>
        /\ Last(center) = DocumentOf(fields)
        /\ Len(center) = nok

C6_Witness ==
    /\ prev # <<>>
    /\ ~prev[1].res.ok
    /\ prev[1].doc # <<>>
    /\ prev[1].doc[1] = DocumentOf(<<"Body", "Title">>)
    /\ fields = <<"Title", "Body">>
    /\ Finished /\ AllStepsSucceeded
    /\ result = <<Success>>

\* The state of the current call in the sense of Unbuilt -> TemplateLoaded
\* -> SlotsBound -> Constructed -> Submitted, read off what the call holds.
AllSlotsBound ==
    /\ toast_xml # <<>>
    /\ \A i \in 0 .. Len(fields) - 1 :
         i \in DOMAIN toast_xml[1] /\ toast_xml[1][i] # <<>>

State ==
    IF Shown THEN "Submitted"
    ELSE IF toast # <<>> THEN "Constructed"
    ELSE IF AllSlotsBound THEN "SlotsBound"
    ELSE IF toast_xml # <<>> THEN "TemplateLoaded"
    ELSE "Unbuilt"

Rank(s) ==
    CASE s = "Unbuilt" -> 0
      [] s = "TemplateLoaded" -> 1
      [] s = "SlotsBound" -> 2
      [] s = "Constructed" -> 3
      [] s = "Submitted" -> 4

C7_Always ==
    /\ Finished => (result[1].ok <=> State = "Submitted")
    /\ toast # <<>> => toast[1] = DocumentOf(fields)
    /\ Shown => toast # <<>> /\ Last(center) = toast[1]
    /\ \A k \in 1 .. Len(log) : ~log[k].ok => (k = Len(log) /\ pc # "show" /\ Failed)

C7_Step ==
    /\ ncalls' # ncalls => State' = "Unbuilt"
    /\ ncalls' = ncalls =>
         \/ Rank(State') = Rank(State)
         \/ /\ Rank(State') = Rank(State) + 1
            /\ pc = "show"
            /\ Len(log') = Len(log) + 1
            /\ Last(log').ok
    /\ (Len(log') = Len(log) + 1 /\ ~Last(log').ok) =>
         /\ State' = State
         /\ pc' # "show"

(* C7: a call moves through Unbuilt, TemplateLoaded, SlotsBound,           *)
(* Constructed, Submitted in that order, one state at a time and never     *)
(* back; the notification is constructed from the fully bound document and *)
(* submitted only once constructed; a failed step ends the call in the     *)
(* state reached, with no later step; the call returns success exactly     *)
(* when it reached Submitted.                                              *)
C7_LinearStateMachine == []C7_Always /\ [][C7_Step]_vars

C7_Witness ==
    /\ app = "tauri"
    /\ Finished
    /\ State = "Submitted"
    /\ result = <<Success>>

\* No OS step occurs twice in the log of a call.
NoStepTwice ==
    \A j, k \in 1 .. Len(log) :
        (log[j].op = log[k].op /\ log[j].idx = log[k].idx) => j = k

\* The call failed with the error of its last OS call, the only one to fail.
FailedByLastStep ==
    /\ log # <<>>
    /\ ~Last(log).ok
    /\ \A k \in 1 .. Len(log) - 1 : log[k].ok
    /\ result[1].err = Surface(app, Last(log).err)

C9_SlotIndexInRange ==
    \A k \in 1 .. Len(log) :
        /\ log[k].op \in {"Item", "AppendChild"} =>
             /\ log[k].idx >= 0
             /\ log[k].idx < SlotCount(template)
             /\ text_nodes = <<SlotCount(template)>>
        /\ log[k].err # "E_BOUNDS"

C9_Witness ==
    /\ template = "ToastText02"
    /\ \E k \in 1 .. Len(log) :
         log[k].op = "AppendChild" /\ log[k].idx = 1 /\ log[k].ok

(* C10: in rust-app a notification is attempted only after the package     *)
(* identity was fully resolved; if an identity step fails no step of       *)
(* show_notification runs; with identity resolved show_notification is     *)
(* called exactly once, and its failure is printed and main ends normally. *)
C10_NotifyOnlyWithIdentity ==
    app = "rust" =>
        /\ (ncalls > 0 \/ log # <<>> \/ pc \in {"main_notify", "show"}) =>
             idlog = <<TRUE, TRUE, TRUE>>
        /\ IdentityFailed => ncalls = 0 /\ log = <<>> /\ center = <<>>
        /\ ncalls <= 1
        /\ (pc = "main_done" /\ idlog = <<TRUE, TRUE, TRUE>>) => ncalls = 1 /\ Finished
        /\ Failed =>
             /\ pc = "main_done"
             /\ Last(stdout) = <<"Error showing notification", result[1].err>>

C10_Witness ==
    /\ app = "rust"
    /\ idlog = <<TRUE, TRUE, TRUE>>
    /\ pc = "main_done"
    /\ Failed
    /\ Len(stdout) = 2

====
